---- MODULE Spec2Model ----
(***************************************************************************)
(* Docmatica (src/main.go): a linter for the archivematica-docs tree.      *)
(*                                                                         *)
(* A Go string is modelled as the sequence of its characters, so that the  *)
(* library functions the program calls (strings.HasPrefix, TrimPrefix,     *)
(* Fields, filepath.Base, Dir, Ext, Join, fmt.Sprintf) are computed on the *)
(* characters, as the program computes them.                               *)
(***************************************************************************)
EXTENDS Integers, Sequences, FiniteSets, Bags, TLC

(***************************************************************************)
(* String literals of the program.                                         *)
(***************************************************************************)
Empty == << >>
Dot == <<".">>
DotDot == <<".", ".">>
Slash == <<"/">>
RST == <<".", "r", "s", "t">>
PNG == <<".", "p", "n", "g">>
SVG == <<".", "s", "v", "g">>
ArchivematicaDocs == <<"a", "r", "c", "h", "i", "v", "e", "m", "a", "t", "i", "c", "a", "-", "d", "o", "c", "s">>
AdminManual == <<"a", "d", "m", "i", "n", "-", "m", "a", "n", "u", "a", "l">>
GettingStarted == <<"g", "e", "t", "t", "i", "n", "g", "-", "s", "t", "a", "r", "t", "e", "d">>
UserManual == <<"u", "s", "e", "r", "-", "m", "a", "n", "u", "a", "l">>
Images == <<"i", "m", "a", "g", "e", "s">>
IndexRst == <<"i", "n", "d", "e", "x", ".", "r", "s", "t">>
ContentsRst == <<"c", "o", "n", "t", "e", "n", "t", "s", ".", "r", "s", "t">>
Locale == <<"l", "o", "c", "a", "l", "e">>
Static == <<"_", "s", "t", "a", "t", "i", "c">>
\* The backquote has no spelling in a TLA+ string: this atom stands for it.
BackQuote == "backquote"
BackRefHead == <<":", "r", "e", "f", ":", BackQuote, "B", "a", "c", "k", " ", "t", "o", " ", "t", "h", "e", " ", "t", "o", "p", " ", "<">>
BackRefTail == <<">", BackQuote>>

\* The names the walk ignores directly under "archivematica-docs".
ignore ==
    { <<"r", "e", "q", "u", "i", "r", "e", "m", "e", "n", "t", "s", ".", "t", "x", "t">>,
      <<"R", "E", "A", "D", "M", "E", ".", "m", "d">>,
      <<"M", "a", "k", "e", "f", "i", "l", "e">>,
      <<"L", "I", "C", "E", "N", "C", "E">>,
      <<"i", "s", "s", "u", "e", "_", "t", "e", "m", "p", "l", "a", "t", "e", ".", "m", "d">>,
      <<"c", "o", "n", "f", ".", "p", "y">> }

\* The error values of the rules.
ErrFileType == "Does not have a .rst file extension or a .png or .svg extension while nested in an 'images' directory."
ErrChapter == "Not found in chapter directory."
ErrAnchor == "Anchor not found at top of page."
ErrBackRef == "'Back to top' link to anchor not found."
\* The errors of the operating system and of bufio.Scanner, by kind.
ErrOpen == "open: permission denied"
ErrRead == "bufio.Scanner: token too long"
ErrIsDir == "read: is a directory"
Nil == "nil"

(***************************************************************************)
(* Package strings.                                                        *)
(***************************************************************************)
HasPrefix(s, prefix) ==
    /\ Len(s) >= Len(prefix)
    /\ SubSeq(s, 1, Len(prefix)) = prefix

TrimPrefix(s, prefix) ==
    IF HasPrefix(s, prefix) THEN SubSeq(s, Len(prefix) + 1, Len(s)) ELSE s

IsSpace(c) == c \in {" ", "\t"}

\* strings.Fields: the maximal runs of non-space characters, in order.
RECURSIVE FieldsFrom(_, _, _)
FieldsFrom(s, i, cur) ==
    IF i > Len(s)
    THEN IF cur = Empty THEN << >> ELSE <<cur>>
    ELSE IF IsSpace(s[i])
         THEN IF cur = Empty
              THEN FieldsFrom(s, i + 1, Empty)
              ELSE <<cur>> \o FieldsFrom(s, i + 1, Empty)
         ELSE FieldsFrom(s, i + 1, Append(cur, s[i]))

Fields(s) == FieldsFrom(s, 1, Empty)

(***************************************************************************)
(* Package path/filepath (Unix: the separator is '/', no volume names).    *)
(***************************************************************************)
\* The index of the last separator of s, 0 when there is none.
LastSlash(s) ==
    LET at == {i \in 1..Len(s) : s[i] = "/"}
    IN  IF at = {} THEN 0 ELSE CHOOSE i \in at : \A j \in at : j <= i

\* The elements of s between separators, empty ones included.
RECURSIVE SplitFrom(_, _, _)
SplitFrom(s, i, cur) ==
    IF i > Len(s)
    THEN <<cur>>
    ELSE IF s[i] = "/"
         THEN <<cur>> \o SplitFrom(s, i + 1, Empty)
         ELSE SplitFrom(s, i + 1, Append(cur, s[i]))

\* Clean's pass over the elements: "." and empty elements are dropped, ".."
\* removes the element before it, is dropped at the root and kept otherwise.
RECURSIVE CleanElems(_, _, _, _)
CleanElems(elems, i, out, rooted) ==
    IF i > Len(elems)
    THEN out
    ELSE LET e == elems[i]
         IN  IF e = Empty \/ e = Dot
             THEN CleanElems(elems, i + 1, out, rooted)
             ELSE IF e = DotDot
                  THEN IF out # << >> /\ out[Len(out)] # DotDot
                       THEN CleanElems(elems, i + 1, SubSeq(out, 1, Len(out) - 1), rooted)
                       ELSE IF rooted
                            THEN CleanElems(elems, i + 1, out, rooted)
                            ELSE CleanElems(elems, i + 1, Append(out, e), rooted)
                  ELSE CleanElems(elems, i + 1, Append(out, e), rooted)

RECURSIVE JoinElems(_, _)
JoinElems(elems, i) ==
    IF i > Len(elems)
    THEN Empty
    ELSE IF i = Len(elems)
         THEN elems[i]
         ELSE elems[i] \o Slash \o JoinElems(elems, i + 1)

Clean(path) ==
    IF path = Empty
    THEN Dot
    ELSE LET rooted == path[1] = "/"
             out == CleanElems(SplitFrom(path, 1, Empty), 1, << >>, rooted)
             body == JoinElems(out, 1)
         IN  IF rooted
             THEN Slash \o body
             ELSE IF body = Empty THEN Dot ELSE body

\* s without its trailing separators.
RECURSIVE StripSlashes(_)
StripSlashes(s) ==
    IF s # Empty /\ s[Len(s)] = "/"
    THEN StripSlashes(SubSeq(s, 1, Len(s) - 1))
    ELSE s

Base(path) ==
    IF path = Empty
    THEN Dot
    ELSE LET p == StripSlashes(path)
         IN  IF p = Empty
             THEN Slash
             ELSE SubSeq(p, LastSlash(p) + 1, Len(p))

Dir(path) == Clean(SubSeq(path, 1, LastSlash(path)))

\* The suffix of the last element from its last dot on, "" when it has none.
Ext(path) ==
    LET from == LastSlash(path) + 1
        dots == {i \in from..Len(path) : path[i] = "."}
    IN  IF dots = {}
        THEN Empty
        ELSE SubSeq(path, CHOOSE i \in dots : \A j \in dots : j <= i, Len(path))

\* filepath.Join of a directory and a name, as Walk joins them.
Join(dir, name) ==
    IF dir = Empty /\ name = Empty
    THEN Empty
    ELSE Clean(IF dir = Empty THEN name
               ELSE IF name = Empty THEN dir
               ELSE dir \o Slash \o name)

(***************************************************************************)
(* Helpers of the program.                                                 *)
(***************************************************************************)
\* fmt.Sprintf(".%v", strings.TrimPrefix(path, root))
relPath(path, root) == Dot \o TrimPrefix(path, root)

\* The name of the directory above the end of the path.
parent(path) == Base(Dir(path))

(***************************************************************************)
(* The rules.  info.Name() and info.IsDir() are passed as name and isDir.  *)
(***************************************************************************)
\* checkFileType without the test of the parent directory.
checkFileTypeAnywhere(path, isDir) ==
    IF isDir
    THEN Nil
    ELSE IF Ext(path) = RST \/ Ext(path) = PNG \/ Ext(path) = SVG
         THEN Nil
         ELSE ErrFileType

checkFileType(path, isDir) ==
    IF isDir
    THEN Nil
    ELSE IF Ext(path) = RST
         THEN Nil
         ELSE IF parent(path) = Images /\ (Ext(path) = PNG \/ Ext(path) = SVG)
              THEN Nil
              ELSE ErrFileType

\* checkRstInChapters without its first return.
checkRstInChaptersNoReturn(path, name) ==
    IF /\ parent(path) = ArchivematicaDocs
       /\ (name = IndexRst \/ name = ContentsRst)
    THEN Nil
    ELSE IF /\ \/ parent(path) = AdminManual
               \/ parent(path) = GettingStarted
               \/ parent(path) = UserManual
            /\ name = IndexRst
         THEN Nil
         ELSE ErrChapter

\* checkRstInChapters with contents.rst allowed in every root.
checkRstInChaptersContents(path, name) ==
    IF /\ parent(path) # ArchivematicaDocs
       /\ parent(path) # AdminManual
       /\ parent(path) # GettingStarted
       /\ parent(path) # UserManual
       /\ parent(path) # Images
    THEN Nil
    ELSE IF /\ \/ parent(path) = ArchivematicaDocs
               \/ parent(path) = AdminManual
               \/ parent(path) = GettingStarted
               \/ parent(path) = UserManual
            /\ (name = IndexRst \/ name = ContentsRst)
         THEN Nil
         ELSE ErrChapter

checkRstInChapters(path, name) ==
    IF /\ parent(path) # ArchivematicaDocs
       /\ parent(path) # AdminManual
       /\ parent(path) # GettingStarted
       /\ parent(path) # UserManual
       /\ parent(path) # Images
    THEN Nil
    ELSE IF /\ parent(path) = ArchivematicaDocs
            /\ (name = IndexRst \/ name = ContentsRst)
         THEN Nil
         ELSE IF /\ \/ parent(path) = AdminManual
                    \/ parent(path) = GettingStarted
                    \/ parent(path) = UserManual
                 /\ name = IndexRst
              THEN Nil
              ELSE ErrChapter

(***************************************************************************)
(* checkAnchors: the locals at entry, one iteration of the loop over the   *)
(* lines, and the error sent after the loop.  A slice expression out of    *)
(* range panics; the local "panicked" records it.                          *)
(***************************************************************************)
AnchorInit ==
    [firstLine |-> TRUE, foundAnchor |-> FALSE, matchingAnchor |-> FALSE,
     anchorText |-> Empty, panicked |-> FALSE]

\* The back-reference line without the label.
BackRefLineNoLabel(anchorText) == BackRefHead \o BackRefTail

\* fmt.Sprintf(":ref:`Back to the top <%v>`", anchorText)
BackRefLine(anchorText) == BackRefHead \o anchorText \o BackRefTail

\* The condition without the test of the leading "_".
IsAnchorLineNoUnderscore(fields) ==
    IF Len(fields) # 2 THEN "no"
    ELSE IF fields[1] # DotDot THEN "no"
    ELSE IF Len(fields[2]) < 1 THEN "panic"
    ELSE IF SubSeq(fields[2], Len(fields[2]), Len(fields[2])) # <<":">> THEN "no"
    ELSE "yes"

\* The condition of the first line's if, evaluated left to right; "panic"
\* when a slice expression it reaches is out of range.
IsAnchorLine(fields) ==
    IF Len(fields) # 2 THEN "no"
    ELSE IF fields[1] # DotDot THEN "no"
    ELSE IF Len(fields[2]) < 1 THEN "panic"
    ELSE IF SubSeq(fields[2], 1, 1) # <<"_">> THEN "no"
    ELSE IF SubSeq(fields[2], Len(fields[2]), Len(fields[2])) # <<":">> THEN "no"
    ELSE "yes"

\* The body of the loop looking for the anchor on every line until one is
\* found, not on the first line alone.
AnchorBodyAnyLine(st, line) ==
    LET fields == Fields(line)
        isAnchor == IF ~st.foundAnchor THEN IsAnchorLine(fields) ELSE "no"
        s1 == IF isAnchor = "panic"
              THEN [st EXCEPT !.panicked = TRUE]
              ELSE IF isAnchor = "yes"
                   THEN IF Len(fields[2]) - 1 < 1
                        THEN [st EXCEPT !.panicked = TRUE]
                        ELSE [st EXCEPT !.anchorText = SubSeq(fields[2], 2, Len(fields[2]) - 1),
                                        !.foundAnchor = TRUE]
                   ELSE st
        s2 == IF s1.panicked THEN s1 ELSE [s1 EXCEPT !.firstLine = FALSE]
    IN  IF ~s2.panicked /\ s2.foundAnchor /\ ~s2.matchingAnchor
           /\ line = BackRefLine(s2.anchorText)
        THEN [s2 EXCEPT !.matchingAnchor = TRUE]
        ELSE s2

\* One iteration of `for line := range lines`.
AnchorBody(st, line) ==
    LET fields == Fields(line)
        isAnchor == IF st.firstLine THEN IsAnchorLine(fields) ELSE "no"
        s1 == IF isAnchor = "panic"
              THEN [st EXCEPT !.panicked = TRUE]
              ELSE IF isAnchor = "yes"
                   THEN IF Len(fields[2]) - 1 < 1
                        THEN [st EXCEPT !.panicked = TRUE]
                        ELSE [st EXCEPT !.anchorText = SubSeq(fields[2], 2, Len(fields[2]) - 1),
                                        !.foundAnchor = TRUE]
                   ELSE st
        s2 == IF s1.panicked THEN s1 ELSE [s1 EXCEPT !.firstLine = FALSE]
    IN  IF ~s2.panicked /\ s2.foundAnchor /\ ~s2.matchingAnchor
           /\ line = BackRefLine(s2.anchorText)
        THEN [s2 EXCEPT !.matchingAnchor = TRUE]
        ELSE s2

\* The error sent on errC after the loop, Nil when none is sent.
AnchorResult(st) ==
    IF ~st.foundAnchor
    THEN ErrAnchor
    ELSE IF ~st.matchingAnchor THEN ErrBackRef ELSE Nil

\* checkAnchors over a whole sequence of lines.
RECURSIVE AnchorLoop(_, _, _)
AnchorLoop(st, lines, i) ==
    IF i > Len(lines) \/ st.panicked
    THEN st
    ELSE AnchorLoop(AnchorBody(st, lines[i]), lines, i + 1)

checkAnchors(lines) ==
    LET st == AnchorLoop(AnchorInit, lines, 1)
    IN  IF st.panicked THEN "panic" ELSE AnchorResult(st)

(***************************************************************************)
(* The file system the run scans.  FileSystem lists, in the lexical        *)
(* pre-order of filepath.Walk, the entries a scanned tree may hold: node 1 *)
(* is the scan root, "up" is the node of the directory holding the entry.  *)
(* walkErr is the error Walk meets at the entry ("lstat", "readdir"),      *)
(* openErr says that os.Open fails, lines are the lines bufio.Scanner      *)
(* yields and scanErr says that it then stops on an error.                 *)
(***************************************************************************)
DotGit == <<".", "g", "i", "t">>
HookRst == <<"h", "o", "o", "k", ".", "r", "s", "t">>
ReadmeMd == <<"R", "E", "A", "D", "M", "E", ".", "m", "d">>
SetupRst == <<"s", "e", "t", "u", "p", ".", "r", "s", "t">>
APng == <<"a", ".", "p", "n", "g">>
BTxt == <<"b", ".", "t", "x", "t">>
FrRst == <<"f", "r", ".", "r", "s", "t">>
LockedRst == <<"l", "o", "c", "k", "e", "d", ".", "r", "s", "t">>
ZzRst == <<"z", "z", ".", "r", "s", "t">>
ZzzRst == <<"z", "z", "z", ".", "r", "s", "t">>
MyLabel == <<"m", "y", "l", "a", "b", "e", "l">>
\* The lines of a page: the anchor definition of a label and the
\* back-reference to it.
AnchorLine(label) == <<".", ".", " ", "_">> \o label \o <<":">>
BackLink(label) == BackRefHead \o label \o BackRefTail
\* The working directory of the process.
Cwd == <<"/", "s", "r", "v", "/">> \o ArchivematicaDocs

Node(name, up, dir, walkErr, openErr, lines, scanErr) ==
    [name |-> name, up |-> up, dir |-> dir, walkErr |-> walkErr,
     openErr |-> openErr, lines |-> lines, scanErr |-> scanErr]
DirNode(name, up) == Node(name, up, TRUE, "none", FALSE, << >>, FALSE)
FileNode(name, up, lines) == Node(name, up, FALSE, "none", FALSE, lines, FALSE)

GoodPage == <<AnchorLine(MyLabel), BackLink(MyLabel)>>

FileSystem ==
    << DirNode(Empty, 0),
       DirNode(DotGit, 1),
       FileNode(HookRst, 2, GoodPage),
       FileNode(ReadmeMd, 1, << >>),
       DirNode(AdminManual, 1),
       FileNode(IndexRst, 5, GoodPage),
       FileNode(SetupRst, 5, <<AnchorLine(MyLabel)>>),
       FileNode(ContentsRst, 1, << >>),
       DirNode(Images, 1),
       FileNode(APng, 9, << >>),
       FileNode(BTxt, 9, << >>),
       \* A directory: os.Open succeeds on it and the first read fails.
       Node(ZzzRst, 9, TRUE, "none", FALSE, << >>, TRUE),
       DirNode(Locale, 1),
       FileNode(FrRst, 13, <<AnchorLine(MyLabel)>>),
       Node(LockedRst, 1, FALSE, "none", TRUE, << >>, FALSE),
       Node(UserManual, 1, TRUE, "readdir", FALSE, << >>, FALSE),
       Node(ZzRst, 1, FALSE, "none", FALSE, <<AnchorLine(MyLabel)>>, TRUE) >>

NumNodes == Len(FileSystem)
Nodes == 1..NumNodes

\* The most entries below the root a scanned tree holds.
MaxEntries == 2

\* The trees: the root and at most MaxEntries entries, each with its directory.
Trees ==
    {t \in SUBSET Nodes :
        /\ 1 \in t
        /\ Cardinality(t) <= MaxEntries + 1
        /\ \A n \in t : n = 1 \/ FileSystem[n].up \in t}

\* A root given with a trailing separator, and a root whose name starts
\* with a dot.
SrvDocsSlash == <<"/", "s", "r", "v", "/", "d", "o", "c", "s", "/">>
XDotDocs == <<"/", "x", "/", ".", "d", "o", "c", "s">>

\* The values of the -path flag.
PathFlags == {Empty, Dot, SrvDocsSlash, XDotDocs}

VARIABLES
    pathFlag,    \* *pathFlag
    getwdErr,    \* whether os.Getwd fails
    tree,        \* the entries under the scan root
    root,        \* main's root
    driver,      \* where main is
    walkPos,     \* the node Walk visits next
    wg,          \* the WaitGroup's counter
    unit,        \* per node, its check goroutine: pc, pending error, lines scanned
    anch,        \* per node, checkFileContent's channels and its checkAnchors goroutine
    lintClosed,  \* whether lintErrors is closed
    agg,         \* the printing goroutine: pc and tripwire
    anyErrors,   \* the buffer of the anyErrors channel
    printed,     \* the lines printed on standard output
    logged,      \* the paths logged by the walk function
    exitCode,    \* the exit code of the process, Running before it exits
    produced,    \* history: the bag of pathErrors the units have sent on lintErrors
    fn, arg, res \* a rule applied on its own: which, its argument, its result

pvars == <<pathFlag, getwdErr, tree, root, driver, walkPos, wg, unit, anch,
           lintClosed, agg, anyErrors, printed, logged, exitCode, produced>>
hvars == <<fn, arg, res>>
vars == <<pvars, hvars>>

\* The value of exitCode while the process runs.
Running == -1
\* A goroutine's panic ends the process with code 2.
Panic == 2

NoUnit == [pc |-> "absent", pend |-> Nil, scanned |-> 0]
NoAnch == [pc |-> "none", st |-> AnchorInit, linesClosed |-> FALSE,
           errBuf |-> << >>, errClosed |-> FALSE]

\* The path Walk passes for a node: the root as given, Join(dir, name) below it.
RECURSIVE PathOf(_, _)
PathOf(n, r) ==
    IF n = 1 THEN r ELSE Join(PathOf(FileSystem[n].up, r), FileSystem[n].name)

\* info.Name(): the last element of the path Lstat was given.
InfoName(path) == Base(path)

HarnessIdle ==
    /\ fn = "none"
    /\ arg = << >>
    /\ res = << >>

PipelineStart ==
    /\ root = Empty
    /\ driver = "start"
    /\ walkPos = 0
    /\ wg = 0
    /\ unit = [n \in Nodes |-> NoUnit]
    /\ anch = [n \in Nodes |-> NoAnch]
    /\ lintClosed = FALSE
    /\ agg = [pc |-> "absent", tripwire |-> FALSE]
    /\ anyErrors = << >>
    /\ printed = << >>
    /\ logged = << >>
    /\ exitCode = Running
    /\ produced = EmptyBag

Init ==
    /\ pathFlag \in PathFlags
    /\ getwdErr \in {e \in BOOLEAN : e => pathFlag = Empty}
    /\ tree \in Trees
    /\ PipelineStart
    /\ HarnessIdle

(***************************************************************************)
(* main: the flags and the working directory.                              *)
(***************************************************************************)
ResolveRoot ==
    /\ exitCode = Running
    /\ driver = "start"
    /\ IF pathFlag = Empty /\ getwdErr
       THEN \* log.Fatalf
            /\ exitCode' = 1
            /\ driver' = "fatal"
            /\ UNCHANGED <<root, walkPos>>
       ELSE /\ root' = IF pathFlag = Empty THEN Cwd ELSE pathFlag
            /\ driver' = "walk"
            /\ walkPos' = 1
            /\ UNCHANGED exitCode
    /\ UNCHANGED <<pathFlag, getwdErr, tree, wg, unit, anch, lintClosed, agg,
                   anyErrors, printed, logged, produced, hvars>>

(***************************************************************************)
(* The function main passes to filepath.Walk: what it does with an entry.  *)
(* "log": the error is logged; "SkipDir", "skip": the entry is excluded;   *)
(* "go": wg.Add(1) and go check(...).                                      *)
(***************************************************************************)
\* The walk function without its test of err.
walkFnNoErrTest(path, name, isDir, err) ==
    IF HasPrefix(name, Dot) /\ name # Dot
    THEN IF isDir THEN "SkipDir" ELSE "skip"
    ELSE IF HasPrefix(name, <<"_">>)
         THEN IF isDir THEN "SkipDir" ELSE "skip"
         ELSE "go"

\* func(path string, info os.FileInfo, err error) error
walkFn(path, name, isDir, err) ==
    IF err
    THEN "log"
    ELSE IF HasPrefix(name, Dot) /\ name # Dot
         THEN IF isDir THEN "SkipDir" ELSE "skip"
         ELSE IF HasPrefix(name, <<"_">>)
              THEN IF isDir THEN "SkipDir" ELSE "skip"
              ELSE IF parent(path) = ArchivematicaDocs
                   THEN IF name = Locale /\ isDir THEN "SkipDir"
                        ELSE IF name = Static /\ isDir THEN "SkipDir"
                        ELSE IF name \in ignore THEN "skip"
                        ELSE "go"
                   ELSE "go"

\* The roots main can walk: the working directory or the -path flag.
Roots == {IF f = Empty THEN Cwd ELSE f : f \in PathFlags}

\* What the program computes from the path and the FileInfo of node n under
\* root r: the path Walk passes, what the walk function does with the entry
\* and what check's calls return for it.  The values depend on the node and
\* the root alone and are computed once, here; the actions read them.
Computed(n, r) ==
    LET path == PathOf(n, r)
        node == FileSystem[n]
    IN  [path |-> path,
         did |-> walkFn(path, InfoName(path), node.dir, node.walkErr # "none"),
         fileType |-> checkFileType(path, node.dir),
         rst |-> Ext(path) = RST,
         chapters |-> checkRstInChapters(path, InfoName(path))]

Walked == [r \in Roots |-> [n \in Nodes |-> Computed(n, r)]]

\* Whether node m lies below node n.
RECURSIVE Below(_, _)
Below(m, n) ==
    /\ m # 1
    /\ \/ FileSystem[m].up = n
       \/ Below(FileSystem[m].up, n)

\* The node Walk visits after n: the next entry of the tree, past n's
\* subtree when Walk does not descend into n.
NextNode(n, descend) ==
    LET later == {m \in tree : m > n /\ (descend \/ ~Below(m, n))}
    IN  IF later = {} THEN NumNodes + 1
        ELSE CHOOSE m \in later : \A k \in later : m <= k

\* One entry of the walk: Lstat or readDirNames, then the walk function.
WalkStep ==
    /\ exitCode = Running
    /\ driver = "walk"
    /\ walkPos \in Nodes
    /\ LET n == walkPos
           node == FileSystem[n]
           path == Walked[root][n].path
           did == Walked[root][n].did
       IN  /\ logged' = IF did = "log" THEN Append(logged, relPath(path, root)) ELSE logged
           /\ wg' = IF did = "go" THEN wg + 1 ELSE wg
           /\ unit' = IF did = "go"
                      THEN [unit EXCEPT ![n] = [pc |-> "fileType", pend |-> Nil, scanned |-> 0]]
                      ELSE unit
           /\ walkPos' = NextNode(n, node.dir /\ did = "go")
    /\ UNCHANGED <<pathFlag, getwdErr, tree, root, driver, anch, lintClosed, agg,
                   anyErrors, printed, produced, exitCode, hvars>>

\* The printing goroutine started only once wg.Wait() has returned.
StartPrinterAfterWait ==
    /\ exitCode = Running
    /\ driver = "walk"
    /\ walkPos = NumNodes + 1
    /\ wg = 0
    /\ agg' = [pc |-> "range", tripwire |-> FALSE]
    /\ driver' = "wait"
    /\ UNCHANGED <<pathFlag, getwdErr, tree, root, walkPos, wg, unit, anch, lintClosed,
                   anyErrors, printed, logged, produced, exitCode, hvars>>

\* Walk has returned: anyErrors is made and the printing goroutine started.
StartPrinter ==
    /\ exitCode = Running
    /\ driver = "walk"
    /\ walkPos = NumNodes + 1
    /\ agg' = [pc |-> "range", tripwire |-> FALSE]
    /\ driver' = "wait"
    /\ UNCHANGED <<pathFlag, getwdErr, tree, root, walkPos, wg, unit, anch, lintClosed,
                   anyErrors, printed, logged, produced, exitCode, hvars>>

\* close(lintErrors) without the wait before it.
WaitReturnsAtOnce == TRUE

\* When wg.Wait() returns.
WaitReturns == wg = 0

WgWait ==
    /\ exitCode = Running
    /\ driver = "wait"
    /\ WaitReturns
    /\ driver' = "close"
    /\ UNCHANGED <<pathFlag, getwdErr, tree, root, walkPos, wg, unit, anch, lintClosed,
                   agg, anyErrors, printed, logged, produced, exitCode, hvars>>

\* The pcs at which a unit is blocked sending on lintErrors.
SendPcs == {"sendType", "sendChapter", "sendAnchor", "sendContent"}

\* close(lintErrors) placed before wg.Wait().
CloseBeforeWait ==
    /\ exitCode = Running
    /\ driver = "wait"
    /\ lintClosed' = TRUE
    /\ driver' = "verdict"
    /\ exitCode' = IF \E n \in Nodes : unit[n].pc \in SendPcs THEN Panic ELSE exitCode
    /\ UNCHANGED <<pathFlag, getwdErr, tree, root, walkPos, wg, unit, anch,
                   agg, anyErrors, printed, logged, produced, hvars>>

\* close(lintErrors): a goroutine blocked sending on it panics.
CloseLintErrors ==
    /\ exitCode = Running
    /\ driver = "close"
    /\ lintClosed' = TRUE
    /\ driver' = "verdict"
    /\ exitCode' = IF \E n \in Nodes : unit[n].pc \in SendPcs THEN Panic ELSE exitCode
    /\ UNCHANGED <<pathFlag, getwdErr, tree, root, walkPos, wg, unit, anch,
                   agg, anyErrors, printed, logged, produced, hvars>>

\* wasThereErrors := <-anyErrors, then os.Exit(1) or the return from main.
ReadVerdict ==
    /\ exitCode = Running
    /\ driver = "verdict"
    /\ anyErrors # << >>
    /\ exitCode' = IF Head(anyErrors) THEN 1 ELSE 0
    /\ anyErrors' = Tail(anyErrors)
    /\ driver' = "exited"
    /\ UNCHANGED <<pathFlag, getwdErr, tree, root, walkPos, wg, unit, anch, lintClosed,
                   agg, printed, logged, produced, hvars>>

(***************************************************************************)
(* The printing goroutine.                                                 *)
(***************************************************************************)
\* Where a unit goes on once its send on lintErrors is done.
AfterSend(pc) ==
    CASE pc = "sendType" -> "ext"
      [] pc = "sendChapter" -> "open"
      [] pc = "sendAnchor" -> "scanErr"
      [] pc = "sendContent" -> "return"

\* The iteration printing only while the tripwire is not set.
PrinterReceiveFirst(n) ==
    /\ exitCode = Running
    /\ agg.pc = "range"
    /\ ~lintClosed
    /\ unit[n].pc \in SendPcs
    /\ printed' = IF agg.tripwire THEN printed
                  ELSE Append(printed, [path |-> relPath(Walked[root][n].path, root),
                                        err |-> unit[n].pend])
    /\ agg' = [agg EXCEPT !.tripwire = TRUE]
    /\ unit' = [unit EXCEPT ![n] = [@ EXCEPT !.pc = AfterSend(unit[n].pc), !.pend = Nil]]
    /\ UNCHANGED <<pathFlag, getwdErr, tree, root, driver, walkPos, wg, anch, lintClosed,
                   anyErrors, logged, produced, exitCode, hvars>>

\* One iteration of the range over lintErrors: the send of unit n meets
\* the receive (the channel is unbuffered), and the line is printed.
PrinterReceive(n) ==
    /\ exitCode = Running
    /\ agg.pc = "range"
    /\ ~lintClosed
    /\ unit[n].pc \in SendPcs
    /\ printed' = Append(printed, [path |-> relPath(Walked[root][n].path, root), err |-> unit[n].pend])
    /\ agg' = [agg EXCEPT !.tripwire = TRUE]
    /\ unit' = [unit EXCEPT ![n] = [@ EXCEPT !.pc = AfterSend(unit[n].pc), !.pend = Nil]]
    /\ UNCHANGED <<pathFlag, getwdErr, tree, root, driver, walkPos, wg, anch, lintClosed,
                   anyErrors, logged, produced, exitCode, hvars>>

\* The value sent as the comment above the if has it ("pass false back").
VerdictSentNegated(tripwire) == ~tripwire

\* if tripwire { anyErrors <- true } else { anyErrors <- false }
VerdictSent(tripwire) == IF tripwire THEN TRUE ELSE FALSE

\* The range ends on the closed channel and the tripwire is sent.
PrinterVerdict ==
    /\ exitCode = Running
    /\ agg.pc = "range"
    /\ lintClosed
    /\ anyErrors' = Append(anyErrors, VerdictSent(agg.tripwire))
    /\ agg' = [agg EXCEPT !.pc = "done"]
    /\ UNCHANGED <<pathFlag, getwdErr, tree, root, driver, walkPos, wg, unit, anch,
                   lintClosed, printed, logged, produced, exitCode, hvars>>

(***************************************************************************)
(* check and checkFileContent, for the unit of node n.                     *)
(***************************************************************************)
\* The send given up when no receiver is ready (a select with a default).
OfferNoBlock(n, err, pc) ==
    /\ unit' = [unit EXCEPT ![n] = [@ EXCEPT !.pc = AfterSend(pc)]]
    /\ produced' = produced (+) SetToBag({[path |-> Walked[root][n].path, err |-> err]})
    /\ UNCHANGED exitCode

\* lintErrors <- pathError{path, err}: the unit blocks at pc until the
\* printing goroutine receives; on a closed channel the send panics.
Offer(n, err, pc) ==
    /\ unit' = [unit EXCEPT ![n] = [@ EXCEPT !.pc = pc, !.pend = err]]
    /\ produced' = produced (+) SetToBag({[path |-> Walked[root][n].path, err |-> err]})
    /\ exitCode' = IF lintClosed THEN Panic ELSE exitCode

\* The unit goes on to pc without an error to send.
Goto(n, pc) ==
    /\ unit' = [unit EXCEPT ![n] = [@ EXCEPT !.pc = pc]]
    /\ UNCHANGED <<produced, exitCode>>

UnitFileType(n) ==
    /\ exitCode = Running
    /\ unit[n].pc = "fileType"
    /\ LET err == Walked[root][n].fileType
       IN  IF err # Nil THEN Offer(n, err, "sendType") ELSE Goto(n, "ext")
    /\ UNCHANGED <<pathFlag, getwdErr, tree, root, driver, walkPos, wg, anch, lintClosed,
                   agg, anyErrors, printed, logged, hvars>>

\* check without the test of the extension.
UnitChaptersAnyExt(n) ==
    /\ exitCode = Running
    /\ unit[n].pc = "ext"
    /\ LET err == Walked[root][n].chapters
       IN  IF err # Nil THEN Offer(n, err, "sendChapter") ELSE Goto(n, "open")
    /\ UNCHANGED <<pathFlag, getwdErr, tree, root, driver, walkPos, wg, anch, lintClosed,
                   agg, anyErrors, printed, logged, hvars>>

\* if filepath.Ext(path) == ".rst" { ... checkRstInChapters ... }
UnitChapters(n) ==
    /\ exitCode = Running
    /\ unit[n].pc = "ext"
    /\ IF Walked[root][n].rst
       THEN LET err == Walked[root][n].chapters
            IN  IF err # Nil THEN Offer(n, err, "sendChapter") ELSE Goto(n, "open")
       ELSE Goto(n, "return")
    /\ UNCHANGED <<pathFlag, getwdErr, tree, root, driver, walkPos, wg, anch, lintClosed,
                   agg, anyErrors, printed, logged, hvars>>

\* checkFileContent going on without the test of os.Open's error.
UnitOpenNoTest(n) ==
    /\ exitCode = Running
    /\ unit[n].pc = "open"
    /\ Goto(n, "scan")
    /\ anch' = [anch EXCEPT ![n] = [NoAnch EXCEPT !.pc = "range"]]
    /\ UNCHANGED <<pathFlag, getwdErr, tree, root, driver, walkPos, wg, lintClosed,
                   agg, anyErrors, printed, logged, hvars>>

\* os.Open; then the two channels are made and checkAnchors is started.
UnitOpen(n) ==
    /\ exitCode = Running
    /\ unit[n].pc = "open"
    /\ IF FileSystem[n].openErr
       THEN /\ Offer(n, ErrOpen, "sendContent")
            /\ UNCHANGED anch
       ELSE /\ Goto(n, "scan")
            /\ anch' = [anch EXCEPT ![n] = [NoAnch EXCEPT !.pc = "range"]]
    /\ UNCHANGED <<pathFlag, getwdErr, tree, root, driver, walkPos, wg, lintClosed,
                   agg, anyErrors, printed, logged, hvars>>

\* scanner.Scan(): another line to send, or the end of the loop and
\* close(anchorLines).
UnitScan(n) ==
    /\ exitCode = Running
    /\ unit[n].pc = "scan"
    /\ IF unit[n].scanned < Len(FileSystem[n].lines)
       THEN /\ Goto(n, "sendLine")
            /\ UNCHANGED anch
       ELSE /\ Goto(n, "recvAnchor")
            /\ anch' = [anch EXCEPT ![n] = [@ EXCEPT !.linesClosed = TRUE]]
    /\ UNCHANGED <<pathFlag, getwdErr, tree, root, driver, walkPos, wg, lintClosed,
                   agg, anyErrors, printed, logged, hvars>>

\* anchorLines <- scanner.Text() meets checkAnchors' receive, and
\* checkAnchors runs the body of its loop on the line.
AnchorReceive(n) ==
    /\ exitCode = Running
    /\ unit[n].pc = "sendLine"
    /\ anch[n].pc = "range"
    /\ LET st == AnchorBody(anch[n].st, FileSystem[n].lines[unit[n].scanned + 1])
       IN  /\ anch' = [anch EXCEPT ![n] = [@ EXCEPT !.st = st]]
           /\ exitCode' = IF st.panicked THEN Panic ELSE exitCode
    /\ unit' = [unit EXCEPT ![n] = [@ EXCEPT !.pc = "scan", !.scanned = @ + 1]]
    /\ UNCHANGED <<pathFlag, getwdErr, tree, root, driver, walkPos, wg, lintClosed,
                   agg, anyErrors, printed, logged, produced, hvars>>

\* checkAnchors' loop ends on the closed channel; its error, if any, is
\* sent on errC, which has room for it, and the deferred close(errC) runs.
AnchorEnd(n) ==
    /\ exitCode = Running
    /\ anch[n].pc = "range"
    /\ anch[n].linesClosed
    /\ LET err == AnchorResult(anch[n].st)
       IN  anch' = [anch EXCEPT ![n] = [@ EXCEPT !.pc = "done", !.errClosed = TRUE,
                        !.errBuf = IF err # Nil THEN <<err>> ELSE << >>]]
    /\ UNCHANGED <<pathFlag, getwdErr, tree, root, driver, walkPos, wg, unit, lintClosed,
                   agg, anyErrors, printed, logged, produced, exitCode, hvars>>

\* err, errValid := <-anchorError
UnitRecvAnchor(n) ==
    /\ exitCode = Running
    /\ unit[n].pc = "recvAnchor"
    /\ IF anch[n].errBuf # << >>
       THEN /\ Offer(n, Head(anch[n].errBuf), "sendAnchor")
            /\ anch' = [anch EXCEPT ![n] = [@ EXCEPT !.errBuf = << >>]]
       ELSE /\ anch[n].errClosed
            /\ Goto(n, "scanErr")
            /\ UNCHANGED anch
    /\ UNCHANGED <<pathFlag, getwdErr, tree, root, driver, walkPos, wg, lintClosed,
                   agg, anyErrors, printed, logged, hvars>>

\* The error scanner.Err() holds when the read of node n has failed.
ReadError(n) == IF FileSystem[n].dir THEN ErrIsDir ELSE ErrRead

\* scanner.Err(), returned to check, which sends it.
UnitScannerErr(n) ==
    /\ exitCode = Running
    /\ unit[n].pc = "scanErr"
    /\ IF FileSystem[n].scanErr
       THEN Offer(n, ReadError(n), "sendContent")
       ELSE Goto(n, "return")
    /\ UNCHANGED <<pathFlag, getwdErr, tree, root, driver, walkPos, wg, anch, lintClosed,
                   agg, anyErrors, printed, logged, hvars>>

\* check returning without wg.Done().
UnitDoneNoDone(n) ==
    /\ exitCode = Running
    /\ unit[n].pc = "return"
    /\ unit' = [unit EXCEPT ![n] = [@ EXCEPT !.pc = "done"]]
    /\ UNCHANGED <<pathFlag, getwdErr, tree, root, driver, walkPos, wg, anch, lintClosed,
                   agg, anyErrors, printed, logged, produced, exitCode, hvars>>

\* defer wg.Done()
UnitDone(n) ==
    /\ exitCode = Running
    /\ unit[n].pc = "return"
    /\ unit' = [unit EXCEPT ![n] = [@ EXCEPT !.pc = "done"]]
    /\ wg' = wg - 1
    /\ UNCHANGED <<pathFlag, getwdErr, tree, root, driver, walkPos, anch, lintClosed,
                   agg, anyErrors, printed, logged, produced, exitCode, hvars>>

Next ==
    \/ ResolveRoot
    \/ WalkStep
    \/ StartPrinter
    \/ WgWait
    \/ CloseLintErrors
    \/ ReadVerdict
    \/ PrinterVerdict
    \/ \E n \in Nodes :
        \/ PrinterReceive(n)
        \/ UnitFileType(n)
        \/ UnitChapters(n)
        \/ UnitOpen(n)
        \/ UnitScan(n)
        \/ AnchorReceive(n)
        \/ AnchorEnd(n)
        \/ UnitRecvAnchor(n)
        \/ UnitScannerErr(n)
        \/ UnitDone(n)

Spec == Init /\ [][Next]_vars

\* The scheduler runs a goroutine that can run.
FairSpec == Spec /\ WF_vars(Next)

\* The pipeline at rest, while a rule is applied on its own.
PipelineIdle ==
    /\ pathFlag = Empty
    /\ getwdErr = FALSE
    /\ tree = {1}
    /\ PipelineStart

(***************************************************************************)
(* checkAnchors on its own, over every page of at most MaxLines lines.     *)
(***************************************************************************)
LabelX == <<"x">>
PaddedAnchor == <<" ", " ", ".", ".", "\t", "_", "m", "y", "l", "a", "b", "e", "l", ":", " ", " ">>
NoColon == <<".", ".", " ", "_", "m", "y", "l", "a", "b", "e", "l">>
NoUnderscore == <<".", ".", " ", "m", "y", "l", "a", "b", "e", "l", ":">>
ThreeFields == <<".", ".", " ", "_", "m", "y", "l", "a", "b", "e", "l", ":", " ", "x">>
ColonOnly == <<".", ".", " ", ":">>
UnderscoreOnly == <<".", ".", " ", "_">>
Text == <<"t", "e", "x", "t">>
Blank == <<" ", "\t">>

PageLines ==
    { AnchorLine(MyLabel), BackLink(MyLabel),
      AnchorLine(LabelX), BackLink(LabelX),
      AnchorLine(Empty), BackLink(Empty),
      PaddedAnchor, NoColon, NoUnderscore, ThreeFields, ColonOnly, UnderscoreOnly,
      BackLink(MyLabel) \o <<" ">>, Text, Blank, Empty }

MaxLines == 3

Pages == UNION {[1..k -> PageLines] : k \in 0..MaxLines}

AnchorsInit ==
    /\ PipelineIdle
    /\ fn = "checkAnchors"
    /\ arg \in Pages
    /\ res = [st |-> AnchorInit, read |-> 0, err |-> "running"]

\* for line := range lines: the next line of the page.
AnchorsLine ==
    /\ fn = "checkAnchors"
    /\ res.err = "running"
    /\ res.read < Len(arg)
    /\ LET st == AnchorBody(res.st, arg[res.read + 1])
       IN  res' = [st |-> st, read |-> res.read + 1,
                   err |-> IF st.panicked THEN "panic" ELSE "running"]
    /\ UNCHANGED <<pvars, fn, arg>>

\* The channel is closed: the error after the loop.
AnchorsEnd ==
    /\ fn = "checkAnchors"
    /\ res.err = "running"
    /\ res.read = Len(arg)
    /\ res' = [res EXCEPT !.err = AnchorResult(res.st)]
    /\ UNCHANGED <<pvars, fn, arg>>

AnchorsNext == AnchorsLine \/ AnchorsEnd

AnchorsSpec == AnchorsInit /\ [][AnchorsNext]_vars

(***************************************************************************)
(* checkFileType and checkRstInChapters on their own, as check calls them, *)
(* over the paths Walk makes of a root, at most MaxDepth directories below *)
(* it and a name.                                                          *)
(***************************************************************************)
Srv == <<"/", "s", "r", "v">>
Chapter == <<"i", "n", "g", "e", "s", "t">>
ImagesUpper == <<"I", "m", "a", "g", "e", "s">>
DiagramPng == <<"d", "i", "a", "g", "r", "a", "m", ".", "p", "n", "g">>
DiagramSvg == <<"d", "i", "a", "g", "r", "a", "m", ".", "s", "v", "g">>
DiagramTxt == <<"d", "i", "a", "g", "r", "a", "m", ".", "t", "x", "t">>
Makefile == <<"M", "a", "k", "e", "f", "i", "l", "e">>
IndexUpperRst == <<"i", "n", "d", "e", "x", ".", "R", "S", "T">>
SetupRstSvg == <<"s", "e", "t", "u", "p", ".", "r", "s", "t", ".", "s", "v", "g">>
IndexCapRst == <<"I", "n", "d", "e", "x", ".", "r", "s", "t">>

RuleRoots == {Slash, Dot, Srv}
RuleDirs == {ArchivematicaDocs, AdminManual, GettingStarted, UserManual, Images,
             ImagesUpper, Chapter}
RuleNames == {IndexRst, ContentsRst, SetupRst, DiagramPng, DiagramSvg, DiagramTxt,
              Makefile, IndexUpperRst, SetupRstSvg, IndexCapRst}

MaxDepth == 2

RECURSIVE JoinAll(_, _, _)
JoinAll(dir, names, i) ==
    IF i > Len(names) THEN dir ELSE JoinAll(Join(dir, names[i]), names, i + 1)

\* The path Walk passes for the entry "name" below the directories "dirs" of "top".
RulePath(a) == Join(JoinAll(a.top, a.dirs, 1), a.name)

RulesInit ==
    /\ PipelineIdle
    /\ fn = "check"
    /\ arg \in [top : RuleRoots,
                dirs : UNION {[1..k -> RuleDirs] : k \in 0..MaxDepth},
                name : RuleNames,
                isDir : BOOLEAN]
    /\ res = [rule |-> "none", err |-> Nil]

\* err := checkFileType(path, info)
ApplyFileType ==
    /\ fn = "check"
    /\ res.rule = "none"
    /\ res' = [rule |-> "checkFileType", err |-> checkFileType(RulePath(arg), arg.isDir)]
    /\ UNCHANGED <<pvars, fn, arg>>

\* if filepath.Ext(path) == ".rst" { err = checkRstInChapters(path, info)
ApplyChapters ==
    /\ fn = "check"
    /\ res.rule = "none"
    /\ Ext(RulePath(arg)) = RST
    /\ res' = [rule |-> "checkRstInChapters",
               err |-> checkRstInChapters(RulePath(arg), InfoName(RulePath(arg)))]
    /\ UNCHANGED <<pvars, fn, arg>>

RulesNext == ApplyFileType \/ ApplyChapters

RulesSpec == RulesInit /\ [][RulesNext]_vars

(***************************************************************************)
(* The properties of the run, under Spec and FairSpec.                     *)
(***************************************************************************)
\* The process has exited after the scan began (not by log.Fatalf).
Exited == exitCode # Running /\ driver # "fatal"

\* The bag of the elements of a sequence.
RECURSIVE BagOfSeq(_)
BagOfSeq(q) ==
    IF q = << >> THEN EmptyBag ELSE SetToBag({Head(q)}) (+) BagOfSeq(Tail(q))

\* A pathError as the printing goroutine prints it.
Line(pe) == [path |-> relPath(pe.path, root), err |-> pe.err]

\* The bag of the lines of a bag of pathErrors.
RECURSIVE LinesOf(_)
LinesOf(b) ==
    IF b = EmptyBag
    THEN EmptyBag
    ELSE LET pe == CHOOSE x \in BagToSet(b) : TRUE
         IN  SetToBag({Line(pe)}) (+) LinesOf(b (-) SetToBag({pe}))

\* C1: when the process exits after a scan, its code is 1 iff some unit
\* sent a violation during the run and 0 iff none did.
C1_ExitCode ==
    Exited =>
        /\ exitCode = 1 <=> produced # EmptyBag
        /\ exitCode = 0 <=> produced = EmptyBag

\* A run with a violation has exited with code 1.
C1_Witness ==
    /\ Exited
    /\ exitCode = 1
    /\ produced # EmptyBag

\* C2: once main has read the verdict, every dispatched unit has ended, no
\* unit holds an undelivered violation and the printing goroutine has
\* received every violation sent.
C2_VerdictAfterUnits ==
    driver = "exited" =>
        /\ \A n \in Nodes : unit[n].pc \in {"absent", "done"}
        /\ \A n \in Nodes : unit[n].pend = Nil
        /\ Len(printed) = BagCardinality(produced)
        /\ wg = 0

\* The verdict has been read in a run of two units that sent violations.
C2_Witness ==
    /\ driver = "exited"
    /\ Cardinality({n \in Nodes : unit[n].pc = "done"}) >= 2
    /\ Cardinality({pe.path : pe \in BagToSet(produced)}) >= 2

\* C3: no line is printed that was not sent, and at the exit of the process
\* the bag of the printed (path, message) lines is the bag of the
\* violations the units sent.
C3_PrintedOnce ==
    /\ BagOfSeq(printed) \sqsubseteq LinesOf(produced)
    /\ exitCode # Running => BagOfSeq(printed) = LinesOf(produced)

\* A run has exited in which the unit dispatched last had its violation
\* printed before a violation of a unit dispatched earlier.
C3_Witness ==
    /\ Exited
    /\ Len(printed) >= 2
    /\ \E m, n \in Nodes :
          /\ m < n
          /\ printed[1].path = relPath(PathOf(n, root), root)
          /\ printed[Len(printed)].path = relPath(PathOf(m, root), root)

\* C4: under fair scheduling every run reaches the exit of the process.
C4_Terminates == <>(exitCode # Running)

\* A run in which a file failed to open and a run in which a read failed
\* have exited: the first line printed is one, the last the other.
C4_Witness ==
    /\ Exited
    /\ Len(printed) >= 2
    /\ {printed[1].err, printed[Len(printed)].err} = {ErrOpen, ErrRead}

\* What Walk does with node n of tree t under root r.
Did(n, r) ==
    walkFn(PathOf(n, r), InfoName(PathOf(n, r)), FileSystem[n].dir,
           FileSystem[n].walkErr # "none")

\* The nodes of tree t for which a unit is started: the walk function says
\* "go" for the node and for every directory above it.
Dispatched(t, r) ==
    {n \in t : /\ Did(n, r) = "go"
               /\ \A m \in t : Below(n, m) => Did(m, r) = "go"}

\* The errors of node n: what each rule returns for it.
ErrorsOf(n, r) ==
    LET path == PathOf(n, r)
        node == FileSystem[n]
        errs == {checkFileType(path, node.dir)}
                \cup IF Ext(path) # RST THEN {}
                     ELSE {checkRstInChapters(path, InfoName(path))}
                          \cup IF node.openErr THEN {ErrOpen}
                               ELSE {checkAnchors(node.lines)}
                                    \cup IF ~node.scanErr THEN {}
                                         ELSE IF node.dir THEN {ErrIsDir}
                                         ELSE {ErrRead}
    IN  {e \in errs : e # Nil}

\* The violations of node n: its errors under its relative path.
ViolationsOf(n, r) ==
    {[path |-> relPath(PathOf(n, r), r), err |-> e] : e \in ErrorsOf(n, r)}

Report(t, r) == UNION {ViolationsOf(n, r) : n \in Dispatched(t, r)}

\* C10: the set of the printed (path, message) lines and the exit code are
\* those the tree determines, whatever the interleaving.
C10_Deterministic ==
    Exited =>
        /\ {printed[i] : i \in 1..Len(printed)} = Report(tree, root)
        /\ exitCode = IF Report(tree, root) = {} THEN 0 ELSE 1

\* A run of a tree with three violations has exited.
C10_Witness ==
    /\ Exited
    /\ Cardinality(Report(tree, root)) >= 3
    /\ Len(printed) >= 3

\* C11: every printed line carries a relative path that begins with "."
\* immediately followed by the path separator, whatever the scan root.
C11_RelPathForm ==
    \A i \in 1..Len(printed) : HasPrefix(printed[i].path, Dot \o Slash)

\* A unit that has been dispatched and has not yet finished.
Active(n) == unit[n].pc \notin {"absent", "done"}

\* C12: whenever a unit is active, the printing goroutine has been started
\* and is in its loop over lintErrors, which is still open: it runs while the
\* walk is under way.  (The instant between Walk's return and the go
\* statement that follows it is not held against the claim.)
C12_DrainingWhileActive ==
    (\E n \in Nodes : Active(n)) =>
        \/ agg.pc = "range" /\ ~lintClosed
        \/ driver = "walk" /\ walkPos = NumNodes + 1

\* C13: lintErrors is closed only once the walk has returned and the
\* WaitGroup is at zero, every unit dispatched having finished; no send
\* meets the closed channel (no goroutine panics); and the printing
\* goroutine sends its verdict only after the close.
C13_CloseAfterUnits ==
    /\ lintClosed =>
          /\ driver \in {"verdict", "exited"}
          /\ walkPos = NumNodes + 1
          /\ wg = 0
          /\ \A n \in Nodes : ~Active(n) /\ unit[n].pend = Nil
    /\ exitCode # Panic
    /\ (agg.pc = "done" \/ anyErrors # << >>) => lintClosed

\* The channel has been closed after two units with violations finished,
\* and the printing goroutine has sent its verdict.
C13_Witness ==
    /\ lintClosed
    /\ driver = "verdict"
    /\ agg.pc = "done"
    /\ anyErrors = <<TRUE>>
    /\ Cardinality({pe.path : pe \in BagToSet(produced)}) >= 2

\* The entries the walk has passed.
Visited(n) == n \in tree /\ walkPos > n

\* Did and ErrorsOf for every root and node, computed once.
Outcome ==
    [r \in Roots |-> [n \in Nodes |-> [did |-> Did(n, r), errs |-> ErrorsOf(n, r)]]]

\* Whether the walk function includes node n and every directory above it.
Included(n) ==
    /\ Outcome[root][n].did = "go"
    /\ \A m \in tree : Below(n, m) => Outcome[root][m].did = "go"

\* C14: a unit is started for an entry iff the walk has visited it and the
\* walk function includes it, at most one per entry; the WaitGroup counter
\* is at all times the number of units dispatched and not finished, and is
\* never negative.
C14_OneUnitPerEntry ==
    /\ wg = Cardinality({n \in Nodes : Active(n)})
    /\ wg >= 0
    /\ \A n \in Nodes :
          unit[n].pc # "absent" <=> (Visited(n) /\ Included(n))

\* The walk has returned from a tree with an excluded entry and an included
\* one: the root's unit has finished, the included entry's unit is active.
C14_Witness ==
    /\ walkPos = NumNodes + 1
    /\ wg = 1
    /\ unit[1].pc = "done"
    /\ \E m, n \in tree \ {1} :
          /\ unit[m].pc = "absent"
          /\ Active(n)

\* The errors sent so far for a path.
ErrsSent(p) == {pe.err : pe \in {x \in BagToSet(produced) : x.path = p}}

AnchorErrs == {ErrAnchor, ErrBackRef}

\* C15 as stated: a file can fail both the type rule and the anchor rule: a
\* file that checkFileType rejects and whose lines checkAnchors rejects has
\* both violations sent by the time its unit ends.
C15_TypeAndAnchor ==
    \A n \in Nodes :
        (/\ unit[n].pc = "done"
         /\ ~FileSystem[n].dir
         /\ checkFileType(PathOf(n, root), FALSE) # Nil
         /\ checkAnchors(FileSystem[n].lines) # Nil)
        => {ErrFileType, checkAnchors(FileSystem[n].lines)} \subseteq ErrsSent(PathOf(n, root))

\* C15, amended: a path may have several violations, each sent once, but a
\* file-type violation is the only violation of its path: the violations of
\* the anchor rule, like every second violation, belong to paths that end
\* in ".rst", which checkFileType passes.
C15_SamePathViolations ==
    \A pe \in BagToSet(produced) :
        /\ CopiesIn(pe, produced) = 1
        /\ pe.err = ErrFileType => ErrsSent(pe.path) = {ErrFileType}
        /\ pe.err \in AnchorErrs => Ext(pe.path) = RST
        /\ Cardinality(ErrsSent(pe.path)) >= 2 => Ext(pe.path) = RST

\* A unit has ended having sent, for the one file, a violation of the
\* placement rule and a violation of the anchor rule.
C15_Witness ==
    \E n \in Nodes :
        /\ unit[n].pc = "done"
        /\ ~FileSystem[n].dir
        /\ ErrChapter \in ErrsSent(PathOf(n, root))
        /\ ErrsSent(PathOf(n, root)) \cap AnchorErrs # {}

\* A markup file: a file whose name ends in ".rst".
IsMarkupFile(n) == ~FileSystem[n].dir /\ Ext(FileSystem[n].name) = RST

\* C16: a markup file that fails to open, or whose read fails, does not
\* crash its unit.  When the open fails checkAnchors is never started, no
\* anchor or read violation is sent for the path, and the open error is
\* sent, once, before the unit ends.  When the read fails the read error is
\* sent, once, before the unit ends.  The run then exits with code 1, and
\* every unit that has ended has sent exactly the errors of its own entry.
C16_IOErrors ==
    /\ exitCode # Panic
    /\ \A n \in Nodes :
          (IsMarkupFile(n) /\ unit[n].pc # "absent") =>
              LET p == PathOf(n, root)
                  ended == unit[n].pc \in {"return", "done"}
              IN  /\ FileSystem[n].openErr =>
                        /\ anch[n].pc = "none"
                        /\ ErrsSent(p) \cap (AnchorErrs \cup {ErrRead}) = {}
                        /\ ended => CopiesIn([path |-> p, err |-> ErrOpen], produced) = 1
                        /\ ended => unit[n].pend = Nil
                  /\ (~FileSystem[n].openErr /\ FileSystem[n].scanErr) =>
                        /\ ErrOpen \notin ErrsSent(p)
                        /\ ended => CopiesIn([path |-> p, err |-> ErrRead], produced) = 1
                        /\ ended => unit[n].pend = Nil
                  /\ (FileSystem[n].openErr \/ FileSystem[n].scanErr) =>
                        /\ exitCode \in {Running, 1}
                        /\ driver # "exited"
                           \/ \E i \in 1..Len(printed) : printed[i].err \in {ErrOpen, ErrRead}
    /\ \A m \in Nodes :
          unit[m].pc = "done" => ErrsSent(PathOf(m, root)) = Outcome[root][m].errs

\* A run has exited with code 1 in which one file failed to open, its
\* checkAnchors never started, and the read of another failed after its
\* checkAnchors had ended.
C16_Witness ==
    /\ Exited
    /\ exitCode = 1
    /\ \E n, m \in Nodes :
          /\ IsMarkupFile(n) /\ IsMarkupFile(m)
          /\ FileSystem[n].openErr /\ unit[n].pc = "done" /\ anch[n].pc = "none"
          /\ ErrOpen \in ErrsSent(PathOf(n, root))
          /\ FileSystem[m].scanErr /\ unit[m].pc = "done" /\ anch[m].pc = "done"
          /\ ErrRead \in ErrsSent(PathOf(m, root))

\* An entry for which Walk reports an error to the walk function.
Inaccessible(n) == FileSystem[n].walkErr # "none"

\* The entries Walk has passed to the walk function: those it has passed
\* that lie below no directory it skipped.
Reached(n) ==
    /\ Visited(n)
    /\ \A m \in tree : Below(n, m) => Outcome[root][m].did = "go"

\* C17: an entry with a traversal error is logged once the walk reaches it
\* and nothing else: it gets no unit, no violation is sent or printed for
\* it, the walk goes on to the later entries, which get their units, and a
\* run in which no entry dispatched has an error of its own exits with 0.
C17_TraversalErrors ==
    /\ \A n \in Nodes :
          Inaccessible(n) =>
              /\ unit[n].pc = "absent"
              /\ ErrsSent(PathOf(n, root)) = {}
              /\ Reached(n) <=>
                    \E i \in 1..Len(logged) : logged[i] = relPath(PathOf(n, root), root)
              /\ Reached(n) =>
                    \A m \in tree :
                        (m > n /\ walkPos > m /\ Included(m)) => unit[m].pc # "absent"
    /\ Len(logged) = Cardinality({n \in Nodes : Inaccessible(n) /\ Reached(n)})
    /\ (Exited /\ \A m \in tree : Included(m) => Outcome[root][m].errs = {})
          => exitCode = 0

\* A run whose only problem was a traversal error has exited with code 0:
\* the entry was logged, it got no unit, and another entry's unit has ended.
C17_Witness ==
    /\ Exited
    /\ exitCode = 0
    /\ Len(logged) = 1
    /\ \E n, m \in tree \ {1} :
          /\ Inaccessible(n)
          /\ unit[n].pc = "absent"
          /\ unit[m].pc = "done"

\* Whether the walk function includes node n and every directory between it
\* and the root.
IncludedBelowRoot(n) ==
    /\ Outcome[root][n].did = "go"
    /\ \A m \in tree \ {1} : Below(n, m) => Outcome[root][m].did = "go"

\* C18: the root is never skipped, whatever its name, and the entries below
\* it that the walk function includes get their units; every other entry
\* whose name starts with "." gets no unit, and nor does any entry below it.
C18_RootNeverSkipped ==
    /\ walkPos > 1 => unit[1].pc # "absent"
    /\ \A n \in tree \ {1} :
          /\ (walkPos > n /\ IncludedBelowRoot(n)) => unit[n].pc # "absent"
          /\ HasPrefix(FileSystem[n].name, Dot) =>
                /\ unit[n].pc = "absent"
                /\ \A m \in tree : Below(m, n) => unit[m].pc = "absent"

\* C19: the placement rule and the anchor rule are applied to files only: the
\* unit of a directory, whatever its name, goes from checkFileType to its
\* end, never opens the directory or starts checkAnchors on it, and sends
\* no violation for it.
C19_DirectoriesPass ==
    \A n \in Nodes :
        FileSystem[n].dir =>
            /\ unit[n].pc \in {"absent", "fileType", "ext", "return", "done"}
            /\ anch[n].pc = "none"
            /\ ErrsSent(PathOf(n, root)) = {}

(***************************************************************************)
(* The properties of checkAnchors, under AnchorsSpec.                      *)
(***************************************************************************)
\* The labels l for which the line is the two fields ".." and "_l:".
AnchorLabels(line) ==
    LET f == Fields(line)
    IN  IF Len(f) = 2 /\ f[1] = DotDot
        THEN {l \in {SubSeq(f[2], 2, Len(f[2]) - 1)} : f[2] = <<"_">> \o l \o <<":">>}
        ELSE {}

\* The labels the first line of the page defines, none for the empty page.
FirstLabels(page) == IF page = << >> THEN {} ELSE AnchorLabels(page[1])

HasBackRef(page, l) == \E i \in 1..Len(page) : page[i] = BackLink(l)

AnchorsDone == fn = "checkAnchors" /\ res.err # "running"

RoundTrip ==
    /\ AnchorsDone
    /\ Len(arg) >= 2
    /\ arg[1] = AnchorLine(MyLabel)
    /\ arg[Len(arg)] = BackLink(MyLabel)

\* C6 as stated: whatever the lines in between, the page passes, without
\* its first line it fails with the anchor message and without its last
\* line with the back-reference message.
C6_RoundTripAnyLines ==
    RoundTrip =>
        /\ res.err = Nil
        /\ checkAnchors(Tail(arg)) = ErrAnchor
        /\ checkAnchors(SubSeq(arg, 1, Len(arg) - 1)) = ErrBackRef

\* C6, amended: the page passes; without its first line it fails with the
\* anchor message provided the line that then comes first is not itself an
\* anchor definition; without its last line it fails with the
\* back-reference message provided no line left is that back-reference line.
C6_RoundTrip ==
    RoundTrip =>
        /\ res.err = Nil
        /\ AnchorLabels(arg[2]) = {} => checkAnchors(Tail(arg)) = ErrAnchor
        /\ (\A i \in 1..(Len(arg) - 1) : arg[i] # BackLink(MyLabel))
              => checkAnchors(SubSeq(arg, 1, Len(arg) - 1)) = ErrBackRef

\* A round-trip page with a line in between has been checked, and both
\* removals fail.
C6_Witness ==
    /\ RoundTrip
    /\ arg = <<AnchorLine(MyLabel), Text, BackLink(MyLabel)>>
    /\ res.err = Nil
    /\ checkAnchors(Tail(arg)) = ErrAnchor
    /\ checkAnchors(SubSeq(arg, 1, 2)) = ErrBackRef

ImmediateParent(a) ==
    IF a.dirs # << >> THEN a.dirs[Len(a.dirs)] ELSE Base(a.top)

ChapterRoots == {ArchivematicaDocs, AdminManual, GettingStarted, UserManual}

HasSuffix(s, suffix) ==
    /\ Len(s) >= Len(suffix)
    /\ SubSeq(s, Len(s) - Len(suffix) + 1, Len(s)) = suffix

ChaptersApplied == fn = "check" /\ res.rule = "checkRstInChapters"
FileTypeApplied == fn = "check" /\ res.rule = "checkFileType"

\* C7 as stated: a .rst file whose immediate parent is none of the four
\* chapter roots gets no violation from checkRstInChapters.
C7_NoOpOutsideChapterRoots ==
    (ChaptersApplied /\ ImmediateParent(arg) \notin ChapterRoots) => res.err = Nil

\* C7, amended: a .rst file whose immediate parent is none of the four
\* chapter roots and is not named "images" gets no violation from
\* checkRstInChapters.
C7_NoOpOutsideRootsAndImages ==
    (ChaptersApplied /\ ImmediateParent(arg) \notin ChapterRoots \cup {Images})
        => res.err = Nil

\* The rule has passed a .rst file of a chapter directory below a manual.
C7_Witness ==
    /\ ChaptersApplied
    /\ arg.dirs = <<UserManual, Chapter>>
    /\ arg.name = SetupRst
    /\ res.err = Nil

\* C8: directly inside a chapter root, index.rst passes, contents.rst passes
\* iff the root is archivematica-docs, and every other .rst name fails with
\* "Not found in chapter directory."
C8_InsideChapterRoot ==
    (ChaptersApplied /\ ImmediateParent(arg) \in ChapterRoots) =>
        /\ arg.name = IndexRst => res.err = Nil
        /\ arg.name = ContentsRst =>
              (res.err = Nil <=> ImmediateParent(arg) = ArchivematicaDocs)
        /\ arg.name \notin {IndexRst, ContentsRst} => res.err = ErrChapter
        /\ res.err \in {Nil, ErrChapter}

\* contents.rst directly inside a manual's root has failed the rule.
C8_Witness ==
    /\ ChaptersApplied
    /\ ImmediateParent(arg) = AdminManual
    /\ arg.name = ContentsRst
    /\ res.err = ErrChapter

\* C9: checkFileType returns no violation iff the entry is a directory, or
\* its name ends in ".rst", or its parent is named "images" and its name
\* ends in ".png" or ".svg"; otherwise it returns the one type violation.
C9_FileType ==
    FileTypeApplied =>
        /\ res.err \in {Nil, ErrFileType}
        /\ res.err = Nil <=>
              \/ arg.isDir
              \/ HasSuffix(arg.name, RST)
              \/ /\ ImmediateParent(arg) = Images
                 /\ HasSuffix(arg.name, PNG) \/ HasSuffix(arg.name, SVG)

\* A .png outside an images directory has failed the rule.
C9_Witness ==
    /\ FileTypeApplied
    /\ ~arg.isDir
    /\ arg.name = DiagramPng
    /\ ImmediateParent(arg) = Chapter
    /\ res.err = ErrFileType
====
